---------------------------- MODULE Spec2Model ----------------------------
(***************************************************************************)
(* FormsView (react-sidebar/components/SidebarBody.tsx): the sidebar panel *)
(* that shows the children, the form list or the editor of the active      *)
(* form, depending on the forms registry and on the local active form id.  *)
(*                                                                         *)
(* The forms registry, the form-meta registry, the alerts and the form     *)
(* state engine are external collaborators: the view reads them through    *)
(* all() / find(id) and is told of registry changes through the           *)
(* subscription of useSubscribable.  Form ids are non-empty strings, the   *)
(* empty string being the view's "no selection" value.                     *)
(***************************************************************************)
EXTENDS Naturals, Sequences, FiniteSets

\* ---------------------------------------------------------------- bounds
\* Registry change notifications that may be waiting for the subscriber.
MaxPending == 2
\* Alerts that may be on screen before one is dismissed.
MaxAlerts == 1

\* ------------------------------------------------------------- value sets
FormIds == {"a", "b", "c"}
Labels == {"", "Page"}
MetaNames == {"meta"}

\* useState<string>('')
NoSelection == ""

\* The value find() gives for an id that is not registered.
undefined == [id |-> "<undefined>", label |-> "<undefined>", invalid |-> FALSE]

InvalidFormMessage == "Cannot navigate away from an invalid form."

VARIABLES
    formPlugins,        \* the forms registry: Form plugins in registration order
    formMetaPlugins,    \* the 'form:meta' plugins in registration order
    activeFormId,       \* useState<string>('')
    effectsRan,         \* the effects of the first render have run
    pending,            \* registry notifications not yet handed to the callback
    alerts,             \* cms.alerts: the alerts dispatched and not dismissed
    formIsPristine,     \* SidebarContext.formIsPristine
    oneByOne            \* history: so far forms only registered one at a time
                        \* into the empty registry of the mounted view, each
                        \* notification processed before the next registration

vars == <<formPlugins, formMetaPlugins, activeFormId, effectsRan, pending,
          alerts, formIsPristine, oneByOne>>

\* ------------------------------------------------------------ the registry
Form(id, label, invalid) == [id |-> id, label |-> label, invalid |-> invalid]

FormValues == {Form(id, l, i) : id \in FormIds, l \in Labels, i \in BOOLEAN}

IdsOf(plugins) == {plugins[i].id : i \in 1..Len(plugins)}

\* PluginType.all()
all(plugins) == plugins

\* PluginType.find(name)
find(plugins, id) ==
    IF id \in IdsOf(plugins)
    THEN plugins[CHOOSE i \in 1..Len(plugins) : plugins[i].id = id]
    ELSE undefined

\* PluginType.add(plugin): a plugin of a registered name takes that plugin's place.
add(plugins, f) ==
    IF f.id \in IdsOf(plugins)
    THEN [i \in 1..Len(plugins) |-> IF plugins[i].id = f.id THEN f ELSE plugins[i]]
    ELSE Append(plugins, f)

\* PluginType.remove(name)
remove(plugins, id) ==
    SelectSeq(plugins, LAMBDA f : f.id # id)

\* ------------------------------------------------------ setSingleActiveForm
\* The active form id after setSingleActiveForm() ran on the registry `plugins`.
SetSingleActiveForm_AtLeastOne(plugins, active) ==
    IF Len(all(plugins)) >= 1 THEN all(plugins)[1].id ELSE active

SetSingleActiveForm_ClearsWhenSeveral(plugins, active) ==
    IF Len(all(plugins)) = 1 THEN all(plugins)[1].id
    ELSE IF Len(all(plugins)) > 1 THEN NoSelection ELSE active

SetSingleActiveForm_ClearsUnregistered(plugins, active) ==
    IF Len(all(plugins)) = 1 THEN all(plugins)[1].id
    ELSE IF active \in IdsOf(plugins) THEN active ELSE NoSelection

SetSingleActiveForm(plugins, active) ==
    IF Len(all(plugins)) = 1 THEN all(plugins)[1].id ELSE active

\* ------------------------------------------------------------- the render
forms == all(formPlugins)

isMultiform == Len(forms) > 1

activeForm_FirstFormFallback ==
    IF find(formPlugins, activeFormId) # undefined
    THEN find(formPlugins, activeFormId)
    ELSE IF Len(formPlugins) > 0 THEN formPlugins[1] ELSE undefined

activeForm == find(formPlugins, activeFormId)

isEditing == activeForm # undefined

formMetas == formMetaPlugins

\* What a header shows.  status is "none" when no FormStatus is rendered.

MultiformFormHeader(form) ==
    [component |-> "MultiformFormHeader", label |-> form.label, close |-> TRUE,
     status |-> "none"]

FormHeader_NoStatus(form, pristine) ==
    [component |-> "FormHeader", label |-> form.label, close |-> FALSE,
     status |-> "none"]

FormHeader(form, pristine) ==
    [component |-> "FormHeader", label |-> form.label, close |-> FALSE,
     status |-> IF pristine THEN "pristine" ELSE "dirty"]

\* The headers rendered inside the FormWrapper, in order.
Headers_SingleIgnoresLabel ==
    (IF isMultiform THEN <<MultiformFormHeader(activeForm)>> ELSE <<>>)
    \o (IF ~isMultiform
        THEN <<FormHeader(activeForm, formIsPristine)>> ELSE <<>>)

Headers ==
    (IF isMultiform THEN <<MultiformFormHeader(activeForm)>> ELSE <<>>)
    \o (IF ~isMultiform /\ activeForm.label # ""
        THEN <<FormHeader(activeForm, formIsPristine)>> ELSE <<>>)

Output(view, listForms, form, headers, metas) ==
    [view |-> view, isEditing |-> isEditing, forms |-> listForms,
     form |-> form, headers |-> headers, metas |-> metas]

\* The return value of FormsView for the current registry and active form id.
Render_ListWithoutMultiform ==
    IF Len(forms) = 0
    THEN Output("children", <<>>, undefined, <<>>, <<>>)
    ELSE IF activeForm = undefined
    THEN Output("list", forms, undefined, <<>>, <<>>)
    ELSE IF activeForm # undefined
    THEN Output("editor", <<>>, activeForm, Headers, formMetas)
    ELSE Output("empty", <<>>, undefined, <<>>, <<>>)

Render ==
    IF Len(forms) = 0
    THEN Output("children", <<>>, undefined, <<>>, <<>>)
    ELSE IF isMultiform /\ activeForm = undefined
    THEN Output("list", forms, undefined, <<>>, <<>>)
    ELSE IF activeForm # undefined
    THEN Output("editor", <<>>, activeForm, Headers, formMetas)
    ELSE Output("empty", <<>>, undefined, <<>>, <<>>)


\* ------------------------------------------------------------------- state
ErrorAlert(message) == [level |-> "error", message |-> message]

Init ==
    /\ formPlugins = <<>>
    /\ formMetaPlugins = <<>>
    /\ activeFormId = NoSelection
    /\ effectsRan = FALSE
    /\ pending = 0
    /\ alerts = <<>>
    /\ formIsPristine = TRUE
    /\ oneByOne = TRUE

\* ------------------------------------------------- external collaborators
\* cms.plugins.add(form) / cms.forms.add(form); the registry notifies its
\* subscribers, which the view is once its effects have run.
RegisterForm(f) ==
    /\ effectsRan => pending < MaxPending
    /\ formPlugins' = add(formPlugins, f)
    /\ pending' = IF effectsRan THEN pending + 1 ELSE pending
    /\ oneByOne' = (oneByOne /\ effectsRan /\ pending = 0 /\ f.id \notin IdsOf(formPlugins))
    /\ UNCHANGED <<formMetaPlugins, activeFormId, effectsRan, alerts, formIsPristine>>

\* cms.plugins.remove(form)
UnregisterForm(id) ==
    /\ id \in IdsOf(formPlugins)
    /\ effectsRan => pending < MaxPending
    /\ formPlugins' = remove(formPlugins, id)
    /\ pending' = IF effectsRan THEN pending + 1 ELSE pending
    /\ oneByOne' = FALSE
    /\ UNCHANGED <<formMetaPlugins, activeFormId, effectsRan, alerts, formIsPristine>>

\* The form state engine: finalForm's state becomes valid or invalid.
SetInvalid(id, invalid) ==
    /\ id \in IdsOf(formPlugins)
    /\ find(formPlugins, id).invalid # invalid
    /\ formPlugins' = add(formPlugins, [find(formPlugins, id) EXCEPT !.invalid = invalid])
    /\ UNCHANGED <<formMetaPlugins, activeFormId, effectsRan, pending, alerts,
                   formIsPristine, oneByOne>>

\* A 'form:meta' plugin is added to or removed from the CMS.
RegisterMeta(name) ==
    /\ \A i \in 1..Len(formMetaPlugins) : formMetaPlugins[i] # name
    /\ formMetaPlugins' = Append(formMetaPlugins, name)
    /\ UNCHANGED <<formPlugins, activeFormId, effectsRan, pending, alerts,
                   formIsPristine, oneByOne>>

UnregisterMeta(name) ==
    /\ \E i \in 1..Len(formMetaPlugins) : formMetaPlugins[i] = name
    /\ formMetaPlugins' = SelectSeq(formMetaPlugins, LAMBDA m : m # name)
    /\ UNCHANGED <<formPlugins, activeFormId, effectsRan, pending, alerts,
                   formIsPristine, oneByOne>>

\* The alerts collaborator drops the oldest alert.
DismissAlert ==
    /\ alerts # <<>>
    /\ alerts' = Tail(alerts)
    /\ UNCHANGED <<formPlugins, formMetaPlugins, activeFormId, effectsRan, pending,
                   formIsPristine, oneByOne>>

\* FormBuilder reports onPristineChange, which is SidebarContext's setFormIsPristine.
PristineChange(pristine) ==
    /\ effectsRan
    /\ Render.view = "editor"
    /\ pristine # formIsPristine
    /\ formIsPristine' = pristine
    /\ UNCHANGED <<formPlugins, formMetaPlugins, activeFormId, effectsRan, pending,
                   alerts, oneByOne>>

\* ------------------------------------------------------------ the view
\* The effects of the first render: useSubscribable subscribes to the registry
\* and the mount effect calls setSingleActiveForm().
MountEffects_WithoutAutoSelect ==
    /\ ~effectsRan
    /\ effectsRan' = TRUE
    /\ oneByOne' = (oneByOne /\ Len(formPlugins) = 0)
    /\ UNCHANGED <<formPlugins, formMetaPlugins, activeFormId, pending, alerts,
                   formIsPristine>>

MountEffects ==
    /\ ~effectsRan
    /\ effectsRan' = TRUE
    /\ activeFormId' = SetSingleActiveForm(formPlugins, activeFormId)
    /\ oneByOne' = (oneByOne /\ Len(formPlugins) = 0)
    /\ UNCHANGED <<formPlugins, formMetaPlugins, pending, alerts, formIsPristine>>

\* The subscription's callback, run for one registry notification.
Notify ==
    /\ effectsRan
    /\ pending > 0
    /\ pending' = pending - 1
    /\ activeFormId' = SetSingleActiveForm(formPlugins, activeFormId)
    /\ UNCHANGED <<formPlugins, formMetaPlugins, effectsRan, alerts, formIsPristine,
                   oneByOne>>

\* FormList calls the setActiveFormId it was given with the id of a listed form.
SelectForm(id) ==
    /\ effectsRan
    /\ Render.view = "list"
    /\ id \in IdsOf(Render.forms)
    /\ activeFormId' = id
    /\ oneByOne' = FALSE
    /\ UNCHANGED <<formPlugins, formMetaPlugins, effectsRan, pending, alerts,
                   formIsPristine>>

\* onClick of the button of MultiformFormHeader.
CloseClick_Inverted ==
    /\ effectsRan
    /\ Render.view = "editor"
    /\ \E i \in 1..Len(Render.headers) : Render.headers[i].close
    /\ activeForm.invalid => Len(alerts) < MaxAlerts
    /\ IF activeForm.invalid # TRUE
       THEN /\ alerts' = Append(alerts, ErrorAlert(InvalidFormMessage))
            /\ UNCHANGED activeFormId
       ELSE /\ activeFormId' = NoSelection
            /\ UNCHANGED alerts
    /\ oneByOne' = FALSE
    /\ UNCHANGED <<formPlugins, formMetaPlugins, effectsRan, pending, formIsPristine>>

CloseClick_RemovesForm ==
    /\ effectsRan
    /\ Render.view = "editor"
    /\ \E i \in 1..Len(Render.headers) : Render.headers[i].close
    /\ activeForm.invalid => Len(alerts) < MaxAlerts
    /\ IF activeForm.invalid = TRUE
       THEN /\ alerts' = Append(alerts, ErrorAlert(InvalidFormMessage))
            /\ UNCHANGED <<activeFormId, formPlugins>>
       ELSE /\ activeFormId' = NoSelection
            /\ formPlugins' = remove(formPlugins, activeFormId)
            /\ UNCHANGED alerts
    /\ oneByOne' = FALSE
    /\ UNCHANGED <<formMetaPlugins, effectsRan, pending, formIsPristine>>

CloseClick ==
    /\ effectsRan
    /\ Render.view = "editor"
    /\ \E i \in 1..Len(Render.headers) : Render.headers[i].close
    /\ activeForm.invalid => Len(alerts) < MaxAlerts
    /\ IF activeForm.invalid = TRUE
       THEN /\ alerts' = Append(alerts, ErrorAlert(InvalidFormMessage))
            /\ UNCHANGED activeFormId
       ELSE /\ activeFormId' = NoSelection
            /\ UNCHANGED alerts
    /\ oneByOne' = FALSE
    /\ UNCHANGED <<formPlugins, formMetaPlugins, effectsRan, pending, formIsPristine>>

\* The steps of FormsView and its headers.
ViewStep ==
    \/ MountEffects
    \/ Notify
    \/ \E id \in FormIds : SelectForm(id)
    \/ CloseClick

Next ==
    \/ \E f \in FormValues : RegisterForm(f)
    \/ \E id \in FormIds : UnregisterForm(id)
    \/ \E id \in FormIds, invalid \in BOOLEAN : SetInvalid(id, invalid)
    \/ \E name \in MetaNames : RegisterMeta(name)
    \/ \E name \in MetaNames : UnregisterMeta(name)
    \/ DismissAlert
    \/ \E pristine \in BOOLEAN : PristineChange(pristine)
    \/ MountEffects
    \/ Notify
    \/ \E id \in FormIds : SelectForm(id)
    \/ CloseClick

Spec == Init /\ [][Next]_vars

TypeOK ==
    /\ IdsOf(formPlugins) \subseteq FormIds
    /\ Len(formPlugins) = Cardinality(IdsOf(formPlugins))
    /\ activeFormId \in FormIds \cup {NoSelection}
    /\ pending \in 0..MaxPending
    /\ Len(alerts) <= MaxAlerts
    /\ Render.view \in {"children", "list", "editor", "empty"}


\* ------------------------------------------------------------------ claims
HasHeader(component) ==
    \E i \in 1..Len(Render.headers) : Render.headers[i].component = component

Settled == effectsRan /\ pending = 0

\* C1 as stated: in every reachable state of the view whose mount effects
\* have run the render output is the children, the form list or the editor,
\* and with forms registered it is the list or the editor.
C1_AlwaysOneOfThree ==
    effectsRan =>
        /\ Render.view \in {"children", "list", "editor"}
        /\ Len(forms) > 0 => Render.view \in {"list", "editor"}

\* C1 as amended: once the effects of the first render have run and every
\* registry notification has been processed, the render output is the children
\* (no forms), the form list or the editor, and with forms registered it is
\* the list or the editor.  Before that a fourth output exists, an empty
\* fragment, rendered exactly when one form is registered and it is not the
\* active form.
C1_OneOfThreeOnceSettled ==
    /\ Settled => Render.view \in {"children", "list", "editor"}
    /\ Settled /\ Len(forms) > 0 => Render.view \in {"list", "editor"}
    /\ Render.view = "children" <=> Len(forms) = 0
    /\ Render.view = "empty" <=> (Len(forms) = 1 /\ activeFormId # forms[1].id)
    /\ Render.view = "empty" => ~Settled

C1_Witness ==
    /\ Settled
    /\ Len(forms) = 1
    /\ Render.view = "editor"
    /\ Render.form = forms[1]

\* C2 as stated: whenever the active form id is the empty string and at least
\* one form is registered, no form is selected and the form list is shown.
C2_EmptyIdShowsList ==
    (activeFormId = NoSelection /\ Len(forms) >= 1) =>
        /\ ~isEditing
        /\ Render.view = "list"

\* C2 as amended: whenever the active form id is the empty string and at least
\* one form is registered, no form is selected (isEditing is false, no editor
\* is rendered); the form list is shown when more than one form is registered,
\* and nothing is rendered when exactly one form is registered, which is the
\* case only until the mount effect or a pending notification selects it.
C2_EmptyIdShowsListWhenMultiform ==
    (activeFormId = NoSelection /\ Len(forms) >= 1) =>
        /\ ~isEditing
        /\ ~Render.isEditing
        /\ Render.view # "editor"
        /\ Len(forms) > 1 => Render.view = "list" /\ Render.forms = forms
        /\ Len(forms) = 1 => Render.view = "empty" /\ ~Settled

C2_Witness ==
    /\ activeFormId = NoSelection
    /\ Settled
    /\ Len(forms) = 2
    /\ Render.view = "list"

\* C3: once the mount effect has run and every notification has been
\* processed, a single registered form is the active form and its editor is
\* rendered; the auto-selection step (the mount effect, the subscription's
\* callback) sets the active form id to the only form's id whatever it was,
\* and leaves it unchanged when the number of forms is not exactly one.
C3_SingleActiveFormAutoSelection ==
    /\ [](Settled /\ Len(forms) = 1 =>
            /\ activeFormId = forms[1].id
            /\ Render.view = "editor"
            /\ Render.form = forms[1])
    /\ [][(MountEffects \/ Notify) =>
            IF Len(forms) = 1
            THEN /\ activeFormId' = forms[1].id
                 /\ Render'.view = "editor"
                 /\ Render'.form = forms[1]
            ELSE activeFormId' = activeFormId]_vars

C3_Witness ==
    /\ Settled
    /\ ~oneByOne
    /\ Len(forms) = 1
    /\ activeFormId = forms[1].id
    /\ Render.view = "editor"

\* C4: no step of the view (mount effects, a processed notification, a
\* selection from the list, a close click) changes the registered forms, the
\* form meta plugins or the pristine flag; such a step changes only the active
\* form id and, when an invalid form is closed, the alerts.
C4_ViewOnlyReads ==
    [][\/ /\ formPlugins' = formPlugins
          /\ formMetaPlugins' = formMetaPlugins
          /\ formIsPristine' = formIsPristine
          /\ alerts' # alerts =>
               /\ activeForm.invalid
               /\ alerts' = Append(alerts, ErrorAlert(InvalidFormMessage))
               /\ activeFormId' = activeFormId
       \/ ~ViewStep]_vars

C4_Witness ==
    /\ alerts # <<>>
    /\ Len(formPlugins) >= 2
    /\ Len(formMetaPlugins) = 1

\* C5 as stated: every header rendered in the editor state shows the active
\* form's label and the pristine/dirty status.
C5_EveryHeaderShowsLabelAndStatus ==
    Render.view = "editor" =>
        \A i \in 1..Len(Render.headers) :
            /\ Render.headers[i].label = activeForm.label
            /\ Render.headers[i].status \in {"pristine", "dirty"}

\* C5 as amended: every header rendered in the editor state shows the active
\* form's label; the single-form header (FormHeader) also shows the
\* pristine/dirty status, the multi-form header (MultiformFormHeader) shows
\* the close affordance and no status.
C5_HeadersShowLabelSingleShowsStatus ==
    Render.view = "editor" =>
        \A i \in 1..Len(Render.headers) :
            /\ Render.headers[i].label = activeForm.label
            /\ Render.headers[i].component = "FormHeader" =>
                /\ Render.headers[i].status =
                       (IF formIsPristine THEN "pristine" ELSE "dirty")
                /\ ~Render.headers[i].close
            /\ Render.headers[i].component = "MultiformFormHeader" =>
                /\ Render.headers[i].status = "none"
                /\ Render.headers[i].close

C5_Witness ==
    /\ Render.view = "editor"
    /\ HasHeader("MultiformFormHeader")
    /\ ~formIsPristine
    /\ activeForm.label # ""


\* C6: a close click on an invalid active form dispatches the error alert
\* 'Cannot navigate away from an invalid form.' and leaves the active form id
\* unchanged, so the editor of the same form stays; a close click on a form
\* that is not invalid sets the active form id to the empty string and
\* dispatches no alert, so that with more than one form the list is next.
C6_CloseClick ==
    [][CloseClick =>
        IF activeForm.invalid
        THEN /\ alerts' = Append(alerts, ErrorAlert(InvalidFormMessage))
             /\ activeFormId' = activeFormId
             /\ Render'.view = "editor"
             /\ Render'.form = activeForm
        ELSE /\ activeFormId' = NoSelection
             /\ alerts' = alerts
             /\ Len(forms') > 1 => Render'.view = "list"]_vars

C6_Witness ==
    /\ alerts = <<ErrorAlert(InvalidFormMessage)>>
    /\ isMultiform
    /\ isEditing
    /\ activeForm.invalid
    /\ HasHeader("MultiformFormHeader")

\* C7: when forms register one at a time into the empty registry of the
\* mounted view, each notification processed before the next registration,
\* the first form stays the active form: with several forms registered the
\* editor of the first form is rendered, under the multi-form header, and not
\* the form list.
C7_FirstFormStaysActive ==
    (oneByOne /\ Settled /\ Len(forms) >= 1) =>
        /\ activeFormId = forms[1].id
        /\ Render.view = "editor"
        /\ Render.form = forms[1]
        /\ Len(forms) > 1 => Render.headers = <<MultiformFormHeader(forms[1])>>

C7_Witness ==
    /\ oneByOne
    /\ Settled
    /\ Len(forms) = 3
    /\ Render.view = "editor"
    /\ HasHeader("MultiformFormHeader")

\* C8: in the editor state at most one header is rendered: the multi-form
\* header iff more than one form is registered, the single-form header iff
\* exactly one form is registered and the active form's label is non-empty;
\* a single form with an empty label has no header and no close affordance.
C8_AtMostOneHeader ==
    Render.view = "editor" =>
        /\ Len(Render.headers) <= 1
        /\ HasHeader("MultiformFormHeader") <=> Len(forms) > 1
        /\ HasHeader("FormHeader") <=> (Len(forms) = 1 /\ activeForm.label # "")
        /\ ~(HasHeader("MultiformFormHeader") /\ HasHeader("FormHeader"))
        /\ (Len(forms) = 1 /\ activeForm.label = "") => Render.headers = <<>>
        /\ (\E i \in 1..Len(Render.headers) : Render.headers[i].close)
               <=> Len(forms) > 1

C8_Witness ==
    /\ Render.view = "editor"
    /\ Len(forms) = 1
    /\ activeForm.label = ""
    /\ Render.headers = <<>>

\* C9: whenever the editor is rendered, the form edited is registered, its id
\* is the active form id and isEditing is true; the list is rendered only with
\* isEditing false; while the active form id names no registered form no
\* editor is rendered: the list with two or more forms, the children with none.
C9_EditorOnlyForRegisteredActiveForm ==
    /\ Render.view = "editor" =>
        /\ \E i \in 1..Len(formPlugins) : formPlugins[i] = Render.form
        /\ Render.form.id = activeFormId
        /\ Render.isEditing
    /\ Render.view = "list" => ~Render.isEditing
    /\ activeFormId \notin IdsOf(formPlugins) =>
        /\ Render.view # "editor"
        /\ Len(forms) >= 2 => Render.view = "list"
        /\ Len(forms) = 0 => Render.view = "children"

C9_Witness ==
    /\ activeFormId # NoSelection
    /\ activeFormId \notin IdsOf(formPlugins)
    /\ Len(forms) >= 2
    /\ Render.view = "list"

\* C10: a registry change never changes the active form id, so the id of an
\* unregistered active form stays; registering a form of that id again while
\* the number of registered forms is not one takes the view from the list (or
\* the children) to the editor of that form; the active form id changes only
\* by auto-selection with exactly one form registered, by a selection from the
\* list or by closing a form that is not invalid.
C10_RegistryChangeKeepsActiveFormId ==
    [][/\ formPlugins' # formPlugins => activeFormId' = activeFormId
       /\ activeFormId' # activeFormId =>
            \/ /\ MountEffects \/ Notify
               /\ Len(forms) = 1
               /\ activeFormId' = forms[1].id
            \/ /\ Render.view = "list"
               /\ activeFormId' \in IdsOf(formPlugins)
               /\ SelectForm(activeFormId')
            \/ /\ CloseClick
               /\ ~activeForm.invalid
               /\ activeFormId' = NoSelection
       /\ (/\ activeFormId \notin IdsOf(formPlugins)
           /\ Len(formPlugins) # 1
           /\ Len(formPlugins') = Len(formPlugins) + 1
           /\ activeFormId \in IdsOf(formPlugins')) =>
            /\ Render.view = (IF Len(formPlugins) = 0 THEN "children" ELSE "list")
            /\ Render'.view = "editor"
            /\ Render'.form.id = activeFormId]_vars

C10_Witness ==
    /\ activeFormId # NoSelection
    /\ activeFormId \notin IdsOf(formPlugins)
    /\ Settled
    /\ Len(forms) = 0

=============================================================================
